---- MODULE Spec2Model ----
(***************************************************************************)
(* StrmDeLocal (plugins.v2/strmdelocal/__init__.py): the debounced event   *)
(* queue and its worker loop, the path-mapping and exclusion rules, the    *)
(* exact and deep-search matchers and the cleanup executor.                *)
(*                                                                         *)
(* A path is a sequence of tokens ("/" is the separator token, a token     *)
(* beginning with "." at the end of a name is its extension), so that the  *)
(* code's string operations (startswith, in, stem, suffix, parent) keep    *)
(* their string meaning: "/m2" starts with "/m".                           *)
(***************************************************************************)
EXTENDS Integers, Sequences, FiniteSets, TLC

VARIABLES
    \* configuration read by init_plugin
    _path_mappings, _keep_dirs, _exclude_keywords,
    _notify_only, _send_notify, _clean_metadata, _delete_torrent,
    _remove_record, _deep_search,
    \* argument and result of the pure rules (mapping lookup, exclusion)
    arg, ret,
    \* the plugin object's service state
    _queue, _stop_event, _worker_thread, _observer,
    \* the worker threads ever started: position, locals of _process_queue_loop
    workers, started, delivered,
    \* the thread calling init_plugin / stop_service, and the wall clock
    caller, now,
    \* what the workers did: tasks handed to _handle_single_file, messages posted
    handled, notifications,
    \* the local tree, the transfer index, the events sent, the accumulator
    \* and the stored history; what the last task did (log), the state it
    \* started from (pre) and the number of tasks handled
    local_fs, transfer_history, sent_events, task_stats, saved_history, log, pre, tasks

cfgVars == <<_path_mappings, _keep_dirs, _exclude_keywords,
             _notify_only, _send_notify, _clean_metadata, _delete_torrent,
             _remove_record, _deep_search>>
fnVars == <<arg, ret>>
svcVars == <<_queue, _stop_event, _worker_thread, _observer>>
loopVars == <<svcVars, workers, started, delivered, caller, now, handled,
              notifications>>
taskVars == <<local_fs, transfer_history, sent_events, task_stats, saved_history, log, pre, tasks>>
vars == <<cfgVars, fnVars, loopVars, taskVars>>

-----------------------------------------------------------------------------
(* Bounds of the model *)

\* longest mapping list drawn for the mapping rule
MaxMappings == 2
\* longest keep_dirs / exclude_keywords list drawn for the exclusion rule
MaxTokens == 2
\* worker threads started in one behaviour
MaxThreads == 2
\* pointer events delivered in one behaviour
MaxEvents == 2
\* seconds of wall clock observed
MaxTime == 5
\* tasks handled one after the other on one tree
MaxTasks == 2
\* history entries saved one after the other
MaxSaves == 103
\* distinct pointer paths dequeued one after the other by one worker
MaxRecorded == 1003

-----------------------------------------------------------------------------
(* Strings as token sequences *)

\* Python None where a string is expected (callers test it by truthiness)
None == <<>>

\* str.startswith
startswith(s, prefix) ==
    /\ Len(prefix) <= Len(s)
    /\ SubSeq(s, 1, Len(prefix)) = prefix

\* the `in` operator on strings
contains(s, sub) ==
    \E i \in 1..(Len(s) - Len(sub) + 1) : SubSeq(s, i, i + Len(sub) - 1) = sub

\* all sequences over S of length at most n
SeqUpTo(S, n) == UNION {[1..k -> S] : k \in 0..n}

-----------------------------------------------------------------------------
(* The pointer paths delivered by the observer *)

P_movie == <<"/", "s", "/", "A", "(2020)", "{tmdb-1}", "/", "A", ".strm">>
P_episode == <<"/", "s", "/", "T", "/", "Season", "1", "/", "T", "S01E01", "{tmdb-2}", ".strm">>
P_noid == <<"/", "s", "/", "A", "(2020)", "/", "A", ".strm">>
P_sibling == <<"/", "s", "2", "/", "A", "{tmdb-1}", ".strm">>
P_unmapped == <<"/", "u", "/", "A", "{tmdb-1}", ".strm">>

\* an episode pointer whose stem is the tag alone, without an identity
P_bare == <<"/", "s", "/", "T", "/", "Season", "1", "/", "S01E01", ".strm">>

StrmPaths == {P_movie, P_episode, P_noid, P_sibling, P_unmapped, P_bare}

\* a pointer directly under the source root: no directory segment
P_flat == <<"/", "s", "/", "A", ".strm">>

-----------------------------------------------------------------------------
(* Path mappings: one configured line "s:l"; colon = FALSE is a line       *)
(* without ":", which the lookup skips.                                    *)

Mapping(s, l) == [colon |-> TRUE, s |-> s, l |-> l]
NoColon(s) == [colon |-> FALSE, s |-> s, l |-> <<>>]

SrcRoot == <<"/", "s">>
SrcShow == <<"/", "s", "/", "T">>
SrcSibling == <<"/", "s", "2">>
LocalRoot == <<"/", "m">>
LocalOther == <<"/", "m", "2">>

MappingLines ==
    { Mapping(SrcRoot, LocalRoot), Mapping(SrcShow, LocalOther),
      Mapping(SrcSibling, LocalOther), NoColon(SrcRoot) }

\* _handle_single_file, step 5: the index of the first line with ":" whose
\* source root prefixes the path, 0 when the loop ends without a break
RECURSIVE FindMappingFrom(_, _, _)
FindMappingFrom(mappings, path_str, i) ==
    IF i > Len(mappings) THEN 0
    ELSE IF ~mappings[i].colon THEN FindMappingFrom(mappings, path_str, i + 1)
    ELSE IF startswith(path_str, mappings[i].s) THEN i
    ELSE FindMappingFrom(mappings, path_str, i + 1)

\* a plausible bug: the most specific (longest) source root wins
FindMapping_longest(mappings, path_str) ==
    LET hits == {i \in 1..Len(mappings) :
                    mappings[i].colon /\ startswith(path_str, mappings[i].s)}
    IN  IF hits = {} THEN 0
        ELSE CHOOSE i \in hits :
                \A j \in hits : \/ Len(mappings[j].s) < Len(mappings[i].s)
                                \/ (Len(mappings[j].s) = Len(mappings[i].s) /\ i <= j)

FindMapping(mappings, path_str) ==
    FindMappingFrom(mappings, path_str, 1)

-----------------------------------------------------------------------------
(* Exclusion rules *)

KeepToken == <<"keep">>
ShowToken == <<"T">>
EpisodeToken == <<"S01E01">>
MovieToken == <<"A">>
ExclusionTokens == {KeepToken, ShowToken, EpisodeToken, MovieToken}

\* the first non-empty token of the list that is a substring of s, else None
RECURSIVE FirstHit(_, _, _)
FirstHit(tokens, s, i) ==
    IF i > Len(tokens) THEN None
    ELSE IF tokens[i] # <<>> /\ contains(s, tokens[i]) THEN tokens[i]
    ELSE FirstHit(tokens, s, i + 1)

\* a plausible bug: exclude_keywords looked at before keep_dirs
_check_exclusion_keywords_first(p, keep_dirs, exclude_keywords) ==
    LET k == FirstHit(exclude_keywords, p, 1)
    IN  IF k # None THEN k ELSE FirstHit(keep_dirs, p, 1)

_check_exclusion(p, keep_dirs, exclude_keywords) ==
    LET d == FirstHit(keep_dirs, p, 1)
    IN  IF d # None THEN d ELSE FirstHit(exclude_keywords, p, 1)

_is_excluded(p, keep_dirs, exclude_keywords) ==
    _check_exclusion(p, keep_dirs, exclude_keywords) # None

-----------------------------------------------------------------------------
(* pathlib on token sequences *)

RootDir == <<"/">>

\* the extensions the files of the model carry
MEDIA_EXTENSIONS == {".mkv", ".mp4"}
META_EXTENSIONS == {".nfo", ".jpg"}
Extensions == MEDIA_EXTENSIONS \cup META_EXTENSIONS \cup {".strm", ".MKV"}

\* str.lower, token by token
LowerToken(tok) ==
    CASE tok = "A" -> "a"
      [] tok = "T" -> "t"
      [] tok = "Season" -> "season"
      [] tok = "S01E01" -> "s01e01"
      [] tok = "S01E02" -> "s01e02"
      [] tok = ".MKV" -> ".mkv"
      [] OTHER -> tok

lower(s) == [i \in 1..Len(s) |-> LowerToken(s[i])]

LastSlash(p) ==
    CHOOSE i \in 1..Len(p) : p[i] = "/" /\ \A j \in (i + 1)..Len(p) : p[j] # "/"

\* Path.name, Path.parent, Path.suffix, Path.stem
name(p) == SubSeq(p, LastSlash(p) + 1, Len(p))

parent(p) ==
    IF LastSlash(p) = 1 THEN RootDir ELSE SubSeq(p, 1, LastSlash(p) - 1)

suffix(p) ==
    LET n == name(p)
    IN  IF Len(n) >= 2 /\ n[Len(n)] \in Extensions THEN n[Len(n)] ELSE ""

stem(p) ==
    LET n == name(p)
    IN  IF suffix(p) = "" THEN n ELSE SubSeq(n, 1, Len(n) - 1)

\* current / part
JoinPath(dir, part) == dir \o <<"/">> \o part

\* str.strip("/")
RECURSIVE lstrip(_)
lstrip(s) == IF s # <<>> /\ Head(s) = "/" THEN lstrip(Tail(s)) ELSE s

RECURSIVE rstrip(_)
rstrip(s) ==
    IF s # <<>> /\ s[Len(s)] = "/" THEN rstrip(SubSeq(s, 1, Len(s) - 1)) ELSE s

strip(s) == rstrip(lstrip(s))

\* str.split("/")
RECURSIVE split(_)
split(s) ==
    IF \A i \in 1..Len(s) : s[i] # "/" THEN <<s>>
    ELSE LET k == CHOOSE i \in 1..Len(s) :
                     s[i] = "/" /\ \A j \in 1..(i - 1) : s[j] # "/"
         IN  <<SubSeq(s, 1, k - 1)>> \o split(SubSeq(s, k + 1, Len(s)))

-----------------------------------------------------------------------------
(* The local library *)

D_movie == JoinPath(LocalRoot, <<"A", "(2020)">>)
D_show == JoinPath(LocalRoot, <<"T">>)
D_season == JoinPath(D_show, <<"Season", "1">>)

F_movie == JoinPath(D_movie, <<"A", ".mkv">>)
F_movie_nfo == JoinPath(D_movie, <<"A", ".nfo">>)
F_movie_poster == JoinPath(D_movie, <<"A", "-", "poster", ".jpg">>)
F_ep1 == JoinPath(D_season, <<"T", "S01E01", ".mkv">>)
F_ep1_nfo == JoinPath(D_season, <<"T", "S01E01", ".nfo">>)
F_ep2 == JoinPath(D_season, <<"T", "S01E02", ".MKV">>)

\* a second directory whose name holds the same title and year
D_remake == JoinPath(LocalRoot, <<"A", "remake", "(2020)">>)
F_remake == JoinPath(D_remake, <<"A", ".mkv">>)

LocalDirs == {LocalRoot, D_movie, D_show, D_season, D_remake}
LocalFiles ==
    {F_movie, F_movie_nfo, F_movie_poster, F_ep1, F_ep1_nfo, F_ep2, F_remake}

\* Path.exists, Path.is_dir, Path.is_file on the tree fs (the set of the
\* paths that exist); "/" always exists
\* the directories of the system besides the library: the root and the
\* monitored source root, which no task removes
SystemDirs == {RootDir, SrcRoot}

exists(fs, p) == p \in fs \/ p \in SystemDirs
is_dir(fs, p) == exists(fs, p) /\ (p \in LocalDirs \/ p \in SystemDirs)
is_file(fs, p) == p \in fs /\ p \in LocalFiles

\* Path.iterdir
iterdir(fs, d) == {q \in fs \cup (SystemDirs \ {RootDir}) : parent(q) = d}

\* what shutil.rmtree removes
Subtree(fs, d) == {q \in fs : q = d \/ startswith(q, d \o <<"/">>)}

\* the ancestors of a set of paths, the paths included
RECURSIVE WithAncestors(_)
WithAncestors(S) ==
    LET up == {parent(q) : q \in S} \ (S \cup {RootDir})
    IN  IF up = {} THEN S ELSE WithAncestors(S \cup up)

-----------------------------------------------------------------------------
(* Identity of a pointer path *)

\* the number captured from a token by \{(?:tmdb|tmdbid)[=-]?(\d+)\},
\* by tmdb[=-](\d+) and by \[tmdbid[=-](\d+)\]; 0 when the token has no match
BraceId(tok) ==
    CASE tok = "{tmdb-1}" -> 1
      [] tok = "{tmdb-2}" -> 2
      [] OTHER -> 0

DashId(tok) ==
    CASE tok = "{tmdb-1}" -> 1
      [] tok = "{tmdb-2}" -> 2
      [] tok = "tmdb=3" -> 3
      [] OTHER -> 0

BracketId(tok) ==
    CASE tok = "[tmdbid=4]" -> 4
      [] OTHER -> 0

\* re.search: the leftmost token with a match, 0 when there is none
RECURSIVE SearchId(_, _, _)
SearchId(path_str, pattern, i) ==
    IF i > Len(path_str) THEN 0
    ELSE LET n == CASE pattern = 1 -> BraceId(path_str[i])
                    [] pattern = 2 -> DashId(path_str[i])
                    [] OTHER -> BracketId(path_str[i])
         IN  IF n # 0 THEN n ELSE SearchId(path_str, pattern, i + 1)

\* the three patterns in order; 0 stands for tmdb_id = None
ExtractTmdbId(path_str) ==
    IF SearchId(path_str, 1, 1) # 0 THEN SearchId(path_str, 1, 1)
    ELSE IF SearchId(path_str, 2, 1) # 0 THEN SearchId(path_str, 2, 1)
    ELSE SearchId(path_str, 3, 1)

\* [sS](\d+)[eE](\d+) on a token: season and episode, zero-filled to two digits
SeasonEpisode(tok) ==
    CASE tok = "S01E01" -> <<"S01", "E01">>
      [] tok = "S01E02" -> <<"S01", "E02">>
      [] OTHER -> <<>>

\* re.search on the stem: the leftmost tag, <<>> when there is none
RECURSIVE SearchSeasonEpisode(_, _)
SearchSeasonEpisode(title, i) ==
    IF i > Len(title) THEN <<>>
    ELSE IF SeasonEpisode(title[i]) # <<>> THEN SeasonEpisode(title[i])
    ELSE SearchSeasonEpisode(title, i + 1)

-----------------------------------------------------------------------------
(* The transfer index and the download history (external services) *)

Record(id, tmdbid, se, dest, src, download_hash) ==
    [id |-> id, tmdbid |-> tmdbid, se |-> se, dest |-> dest, src |-> src,
     download_hash |-> download_hash]

\* no record (None)
NoRecord == Record(0, 0, <<>>, <<>>, <<>>, "")

DownloadSrc == <<"/", "dl", "/", "A", ".mkv">>

R_movie == Record(1, 1, <<>>, F_movie, DownloadSrc, "")
R_ep1 == Record(2, 2, <<"S01", "E01">>, F_ep1, DownloadSrc, "h2")
R_ep2 == Record(3, 2, <<"S01", "E02">>, F_ep2, <<>>, "")
\* a second version of the movie, transferred to its own directory
R_remake == Record(4, 1, <<>>, F_remake, <<>>, "")

\* TransferHistoryOper.get_by(tmdbid=..) and get_by(tmdbid=.., season=..,
\* episode=..): the records of the media, of the episode when se is given
get_by(transfers, tmdbid, se) ==
    SelectSeq(transfers,
              LAMBDA r : r.tmdbid = tmdbid /\ (se = <<>> \/ r.se = se))

\* TransferHistoryOper.get_by_dest
get_by_dest(transfers, dest) ==
    LET hits == SelectSeq(transfers, LAMBDA r : r.dest = dest)
    IN  IF hits = <<>> THEN NoRecord ELSE Head(hits)

\* TransferHistoryOper.delete
delete(transfers, id) == SelectSeq(transfers, LAMBDA r : r.id # id)

\* DownloadHistoryOper.get_hash_by_fullpath; "" when the path is unknown
get_hash_by_fullpath(path) ==
    CASE path = DownloadSrc -> "h1"
      [] path = F_remake -> "h4"
      [] path = F_movie -> "h5"
      [] OTHER -> ""

-----------------------------------------------------------------------------
(* The world one task works on: w.fs the tree, w.transfers the index,      *)
(* w.events the download-file-deleted hashes sent, w.stats the accumulator *)
(* of the worker, w.processed_files the set of the task, w.history the     *)
(* stored history, w.faults the calls that fail during the task, w.log     *)
(* what the task did.                                                      *)

NoLog ==
    [local_base |-> <<>>, queries |-> 0, query_failed |-> FALSE,
     exact |-> <<>>, deep |-> FALSE, cleaned |-> {},
     unlinked |-> {}, meta |-> {}, rmtree |-> {}, reclaimed |-> <<>>,
     reported |-> {}, fs_failed |-> {}, step_failed |-> {}, saved |-> FALSE]

\* the calls that can be made to fail during a task: get_by (query),
\* Path.unlink of a media file, shutil.rmtree, get_by_dest (lookup), the
\* unlink of a metadata sibling (meta), get_hash_by_fullpath (hash),
\* send_event (event) and TransferHistoryOper.delete (delete)
NoFaults ==
    [query |-> FALSE, unlink |-> FALSE, rmtree |-> FALSE, lookup |-> FALSE,
     meta |-> FALSE, hash |-> FALSE, event |-> FALSE, delete |-> FALSE]

\* a set as a sequence, in the order the directory scan yields it
RECURSIVE Listing(_)
Listing(S) ==
    IF S = {} THEN <<>>
    ELSE LET x == CHOOSE y \in S : TRUE
         IN  <<x>> \o Listing(S \ {x})

\* a plausible bug: the reverse lookup of the destination path comes first
_get_torrent_hash_dest_first(file_path, h_record, raises) ==
    IF ~raises /\ get_hash_by_fullpath(file_path) # ""
    THEN get_hash_by_fullpath(file_path)
    ELSE IF h_record # NoRecord /\ h_record.download_hash # ""
    THEN h_record.download_hash
    ELSE IF ~raises /\ h_record # NoRecord /\ h_record.src # <<>>
    THEN get_hash_by_fullpath(h_record.src)
    ELSE ""

\* _get_torrent_hash: the stored hash, else the hash of the record's source
\* path, else the hash of the destination path; "" for None, which is also
\* what the bare except returns when get_hash_by_fullpath raises
_get_torrent_hash(file_path, h_record, raises) ==
    IF h_record # NoRecord /\ h_record.download_hash # ""
    THEN h_record.download_hash
    ELSE IF raises THEN ""
    ELSE IF h_record # NoRecord /\ h_record.src # <<>>
              /\ get_hash_by_fullpath(h_record.src) # ""
    THEN get_hash_by_fullpath(h_record.src)
    ELSE get_hash_by_fullpath(file_path)

Separators == {" ", ".", "-", "_"}

\* _del_meta_for_file: the files it unlinks
MetaSiblings(fs, media_path) ==
    IF ~exists(fs, parent(media_path)) THEN {}
    ELSE LET st == stem(media_path)
             exact == {f \in fs : /\ is_file(fs, f)
                                  /\ parent(f) = parent(media_path)
                                  /\ \E ext \in META_EXTENSIONS :
                                        name(f) = st \o <<ext>>}
             fuzzy == {f \in iterdir(fs, parent(media_path)) :
                          /\ startswith(name(f), st)
                          /\ f # media_path
                          /\ LowerToken(suffix(f)) \in META_EXTENSIONS
                          /\ stem(f) # st
                          /\ \E sep \in Separators :
                                startswith(stem(f), st \o <<sep>>)
                          /\ is_file(fs, f)}
         IN  exact \cup fuzzy

\* a plausible bug: the main file is unlinked without looking at _notify_only
_perform_cleanup_unguarded(w, file_path) ==
    IF file_path \in w.processed_files THEN w
    ELSE [w EXCEPT
            !.fs = @ \ {file_path},
            !.processed_files = @ \cup {file_path},
            !.log.cleaned = @ \cup {file_path},
            !.log.unlinked = @ \cup (IF exists(w.fs, file_path)
                                     THEN {file_path} ELSE {})]

\* a plausible bug: a missing file is counted as a failure and its
\* associated items are left alone
_perform_cleanup_missing_fails(w, file_path) ==
    IF file_path \in w.processed_files THEN w
    ELSE IF _notify_only \/ exists(w.fs, file_path)
    THEN _perform_cleanup_unguarded(
             [w EXCEPT !.stats.deleted = @ + 1], file_path)
    ELSE [w EXCEPT !.stats.failed = @ + 1,
                   !.processed_files = @ \cup {file_path},
                   !.log.cleaned = @ \cup {file_path}]

\* the sub-operations of _perform_cleanup that raise on file_path under the
\* task's faults (each raise is caught where it happens)
StepsRaised(w, file_path) ==
    LET h_record == IF w.faults.lookup THEN NoRecord
                    ELSE get_by_dest(w.transfers, file_path)
    IN  (IF w.faults.lookup THEN {"lookup"} ELSE {})
        \cup (IF w.faults.meta /\ _clean_metadata
                   /\ MetaSiblings(w.fs, file_path) # {}
              THEN {"meta"} ELSE {})
        \cup (IF w.faults.hash /\ _delete_torrent
                   /\ (h_record = NoRecord \/ h_record.download_hash = "")
              THEN {"hash"} ELSE {})
        \cup (IF w.faults.event /\ _delete_torrent
                   /\ _get_torrent_hash(file_path, h_record,
                                        w.faults.hash) # ""
              THEN {"event"} ELSE {})
        \cup (IF w.faults.delete /\ _remove_record /\ h_record # NoRecord
              THEN {"delete"} ELSE {})

\* a plausible bug: the first sub-operation that raises ends the cleanup of
\* the file, which is then left on disk
_perform_cleanup_aborts(w, file_path) ==
    IF file_path \in w.processed_files THEN w
    ELSE IF _notify_only
    THEN [w EXCEPT !.processed_files = @ \cup {file_path},
                   !.log.cleaned = @ \cup {file_path}]
    ELSE IF StepsRaised(w, file_path) # {}
    THEN [w EXCEPT !.processed_files = @ \cup {file_path},
                   !.log.cleaned = @ \cup {file_path},
                   !.log.step_failed = @ \cup StepsRaised(w, file_path)]
    ELSE
    LET h_record == get_by_dest(w.transfers, file_path)
        metas == IF _clean_metadata
                 THEN MetaSiblings(w.fs, file_path) ELSE {}
        t_hash == IF _delete_torrent
                  THEN _get_torrent_hash(file_path, h_record, FALSE) ELSE ""
        unlinks == exists(w.fs, file_path) /\ ~w.faults.unlink
        raises == exists(w.fs, file_path) /\ w.faults.unlink
    IN  [w EXCEPT
          !.fs = (@ \ metas) \ (IF unlinks THEN {file_path} ELSE {}),
          !.events = IF t_hash # "" THEN Append(@, t_hash) ELSE @,
          !.transfers = IF _remove_record /\ h_record # NoRecord
                        THEN delete(@, h_record.id) ELSE @,
          !.stats.deleted = IF unlinks THEN @ + 1 ELSE @,
          !.stats.deleted_files =
              IF unlinks THEN Append(@, file_path) ELSE @,
          !.stats.failed = IF raises THEN @ + 1 ELSE @,
          !.processed_files = @ \cup {file_path},
          !.log.cleaned = @ \cup {file_path},
          !.log.meta = @ \cup metas,
          !.log.unlinked = @ \cup (IF unlinks THEN {file_path} ELSE {}),
          !.log.fs_failed = @ \cup (IF raises THEN {file_path} ELSE {})]

\* _perform_cleanup
_perform_cleanup(w, file_path) ==
    IF file_path \in w.processed_files THEN w
    ELSE IF _notify_only
    THEN [w EXCEPT !.processed_files = @ \cup {file_path},
                   !.log.cleaned = @ \cup {file_path}]
    ELSE
    LET file_exists == exists(w.fs, file_path)
        \* get_by_dest raises: h_record stays None
        h_record == IF w.faults.lookup THEN NoRecord
                    ELSE get_by_dest(w.transfers, file_path)
        \* the unlink of a metadata sibling raises: it is left on disk
        metas == IF _clean_metadata /\ ~w.faults.meta
                 THEN MetaSiblings(w.fs, file_path) ELSE {}
        t_hash == IF _delete_torrent
                  THEN _get_torrent_hash(file_path, h_record, w.faults.hash)
                  ELSE ""
        \* file_path.unlink() raises when the task's unlink fault is set
        unlinks == file_exists /\ ~w.faults.unlink
        raises == file_exists /\ w.faults.unlink
    IN  [w EXCEPT
          !.fs = (@ \ metas) \ (IF unlinks THEN {file_path} ELSE {}),
          !.events = IF t_hash # "" /\ ~w.faults.event
                     THEN Append(@, t_hash) ELSE @,
          !.transfers = IF _remove_record /\ h_record # NoRecord
                           /\ ~w.faults.delete
                        THEN delete(@, h_record.id) ELSE @,
          !.stats.deleted = IF unlinks THEN @ + 1 ELSE @,
          !.stats.deleted_files =
              IF unlinks THEN Append(@, file_path) ELSE @,
          !.stats.failed = IF raises THEN @ + 1 ELSE @,
          !.processed_files = @ \cup {file_path},
          !.log.cleaned = @ \cup {file_path},
          !.log.meta = @ \cup metas,
          !.log.unlinked = @ \cup (IF unlinks THEN {file_path} ELSE {}),
          !.log.fs_failed = @ \cup (IF raises THEN {file_path} ELSE {}),
          !.log.step_failed = @ \cup StepsRaised(w, file_path)]

\* a plausible bug: only media files are looked for, subdirectories are not
has_valid_content_media_only(fs, dir_path) ==
    \/ dir_path = RootDir
    \/ \E item \in iterdir(fs, dir_path) :
          is_file(fs, item) /\ LowerToken(suffix(item)) \in MEDIA_EXTENSIONS

\* _recursive_check_and_cleanup: has_valid_content
has_valid_content(fs, dir_path) ==
    \E item \in iterdir(fs, dir_path) :
        \/ is_dir(fs, item)
        \/ is_file(fs, item) /\ LowerToken(suffix(item)) \in MEDIA_EXTENSIONS

\* a plausible bug: the walk removes the directory it was started at and does
\* not go on to its parent
_recursive_check_and_cleanup_one_level(w, dir_path) ==
    IF ~exists(w.fs, dir_path) \/ ~is_dir(w.fs, dir_path) THEN w
    ELSE IF has_valid_content(w.fs, dir_path) THEN w
    ELSE IF _notify_only
    THEN [w EXCEPT !.log.reported = @ \cup {dir_path}]
    ELSE IF w.faults.rmtree
    THEN [w EXCEPT !.log.fs_failed = @ \cup {dir_path}]
    ELSE [w EXCEPT
            !.fs = @ \ Subtree(w.fs, dir_path),
            !.stats.deleted = @ + 1,
            !.log.reclaimed = Append(@, [dir |-> dir_path, seen |-> w.fs])]

\* _recursive_check_and_cleanup
RECURSIVE _recursive_check_and_cleanup(_, _)
_recursive_check_and_cleanup(w, dir_path) ==
    IF ~exists(w.fs, dir_path) \/ ~is_dir(w.fs, dir_path) THEN w
    ELSE IF has_valid_content(w.fs, dir_path) THEN w
    ELSE IF _notify_only
    THEN [w EXCEPT !.log.reported = @ \cup {dir_path}]
    ELSE IF w.faults.rmtree
    THEN [w EXCEPT !.log.fs_failed = @ \cup {dir_path}]
    ELSE LET removed ==
                 [w EXCEPT
                    !.fs = @ \ Subtree(w.fs, dir_path),
                    !.stats.deleted = @ + 1,
                    !.log.reclaimed =
                        Append(@, [dir |-> dir_path, seen |-> w.fs])]
         IN  IF exists(removed.fs, parent(dir_path))
             THEN _recursive_check_and_cleanup(removed, parent(dir_path))
             ELSE removed

\* _del_records: os.walk over the directory, every file's record deleted
RECURSIVE DelRecords(_, _)
DelRecords(transfers, files) ==
    IF files = <<>> THEN transfers
    ELSE LET h == get_by_dest(transfers, Head(files))
         IN  DelRecords(IF h # NoRecord THEN delete(transfers, h.id)
                        ELSE transfers, Tail(files))

\* _del_torrents: os.walk over the directory, an event for every file with a
\* hash; a get_by_dest that raises leaves h_record None
RECURSIVE DelTorrents(_, _, _, _)
DelTorrents(events, transfers, files, faults) ==
    IF files = <<>> THEN events
    ELSE LET h_record == IF faults.lookup THEN NoRecord
                         ELSE get_by_dest(transfers, Head(files))
             t_hash == _get_torrent_hash(Head(files), h_record, faults.hash)
         IN  DelTorrents(IF t_hash # "" THEN Append(events, t_hash) ELSE events,
                         transfers, Tail(files), faults)

\* _do_cleanup_dir; a get_by_dest or delete that raises in _del_records and a
\* send_event that raises in _del_torrents end the try block before rmtree,
\* as an rmtree that raises does
_do_cleanup_dir(w, target_dir) ==
    IF _is_excluded(target_dir, _keep_dirs, _exclude_keywords) THEN w
    ELSE IF _notify_only
    THEN [w EXCEPT !.processed_files = @ \cup {target_dir},
                   !.log.cleaned = @ \cup {target_dir}]
    ELSE LET files == Listing({f \in Subtree(w.fs, target_dir) :
                                  is_file(w.fs, f)})
             records_raise ==
                 /\ _remove_record
                 /\ files # <<>>
                 /\ \/ w.faults.lookup
                    \/ /\ w.faults.delete
                       /\ \E i \in 1..Len(files) :
                             get_by_dest(w.transfers, files[i]) # NoRecord
             after_records == IF _remove_record /\ ~records_raise
                              THEN DelRecords(w.transfers, files)
                              ELSE w.transfers
             after_events == IF _delete_torrent /\ ~records_raise
                             THEN DelTorrents(w.events, after_records, files,
                                              w.faults)
                             ELSE w.events
             events_raise == w.faults.event /\ after_events # w.events
             steps == (IF records_raise
                       THEN {IF w.faults.lookup THEN "lookup" ELSE "delete"}
                       ELSE {})
                      \cup (IF events_raise THEN {"event"} ELSE {})
         IN  IF records_raise \/ events_raise \/ w.faults.rmtree
             THEN [w EXCEPT
                !.processed_files = @ \cup {target_dir},
                !.log.cleaned = @ \cup {target_dir},
                !.transfers = after_records,
                !.events = IF events_raise THEN @ ELSE after_events,
                !.log.fs_failed = @ \cup (IF steps = {} THEN {target_dir}
                                          ELSE {}),
                !.log.step_failed = @ \cup steps]
             ELSE [w EXCEPT
                !.processed_files = @ \cup {target_dir},
                !.log.cleaned = @ \cup {target_dir},
                !.transfers = after_records,
                !.events = after_events,
                !.fs = @ \ Subtree(w.fs, target_dir),
                !.log.rmtree = @ \cup {target_dir},
                !.stats.deleted = @ + 1,
                !.stats.deleted_files = Append(@, target_dir)]

\* the year captured from a token by [\(\[（](\d{4})[\)\]）]; "" without one
YearOf(tok) ==
    CASE tok = "(2020)" -> "2020"
      [] tok = "(2021)" -> "2021"
      [] OTHER -> ""

\* the digits of a token read as a number (\d+); -1 without digits
NumberOf(tok) ==
    CASE tok = "1" -> 1
      [] tok = "2" -> 2
      [] tok = "(2020)" -> 2020
      [] tok = "(2021)" -> 2021
      [] tok = "S01E01" -> 1
      [] tok = "S01E02" -> 1
      [] tok = "{tmdb-1}" -> 1
      [] tok = "{tmdb-2}" -> 2
      [] OTHER -> -1

\* (.+?)[\(\[（](\d{4})[\)\]）] on a segment: the index of the leftmost
\* year token that has text before it, 0 without one
NameYearAt(part) ==
    LET ks == {k \in 2..Len(part) : YearOf(part[k]) # ""}
    IN  IF ks = {} THEN 0 ELSE CHOOSE k \in ks : \A j \in ks : k <= j

\* [sS]eason\s*(\d+), ignoring case: the number after the leftmost
\* "season", -1 without one
SeasonOf(nm) ==
    LET ks == {k \in 1..(Len(nm) - 1) :
                  LowerToken(nm[k]) = "season" /\ NumberOf(nm[k + 1]) >= 0}
    IN  IF ks = {} THEN -1
        ELSE NumberOf(nm[(CHOOSE k \in ks : \A j \in ks : k <= j) + 1])

\* re.search(r'\d+', part): the leftmost number of the segment
FirstNumber(part) ==
    LET ks == {k \in 1..Len(part) : NumberOf(part[k]) >= 0}
    IN  IF ks = {} THEN -1
        ELSE NumberOf(part[CHOOSE k \in ks : \A j \in ks : k <= j])

\* the subdirectories a segment without an exact child is redirected to, by
\* the name-and-year rule and, when that finds none, by the season rule
Redirects(fs, current, part) ==
    LET sub_dirs == {x \in iterdir(fs, current) : is_dir(fs, x)}
        k == NameYearAt(part)
        by_year ==
            IF k = 0 THEN {}
            ELSE {d \in sub_dirs :
                     /\ contains(lower(name(d)), lower(SubSeq(part, 1, k - 1)))
                     /\ \E i \in 1..Len(name(d)) :
                           YearOf(name(d)[i]) = YearOf(part[k])}
        by_season ==
            IF SeasonOf(part) < 0 THEN {}
            ELSE {d \in sub_dirs : /\ SeasonOf(name(d)) >= 0
                                   /\ SeasonOf(name(d)) = FirstNumber(part)}
    IN  IF by_year # {} THEN by_year ELSE by_season

\* the descent of _do_deep_search over parts[:-1]: the directory reached, <<>>
\* when the walk returns without one (the first matching subdirectory of the
\* scan is taken)
RECURSIVE Descend(_, _, _, _)
Descend(fs, current, parts, i) ==
    IF i >= Len(parts) THEN current
    ELSE IF exists(fs, JoinPath(current, parts[i]))
    THEN Descend(fs, JoinPath(current, parts[i]), parts, i + 1)
    ELSE IF ~is_dir(fs, current) THEN <<>>
    ELSE LET found == Redirects(fs, current, parts[i])
         IN  IF found = {} THEN <<>>
             ELSE Descend(fs, CHOOSE d \in found : TRUE, parts, i + 1)

\* (.+)[sS](\d+)[eE](\d+) on the stem: the tag of the last token that carries
\* one and has text before it, <<>> without one
DeepSearchTag(strm_stem) ==
    LET ks == {k \in 2..Len(strm_stem) : SeasonEpisode(strm_stem[k]) # <<>>}
    IN  IF ks = {} THEN <<>>
        ELSE SeasonEpisode(strm_stem[CHOOSE k \in ks : \A j \in ks : j <= k])

\* se.lower() in f.name.lower()
CarriesTag(nm, se) ==
    \E i \in 1..Len(nm) :
        /\ SeasonEpisode(nm[i]) # <<>>
        /\ SeasonEpisode(nm[i]) = se

\* the episode loop of _do_deep_search
RECURSIVE CleanEpisodes(_, _)
CleanEpisodes(w, files) ==
    IF files = <<>> THEN w
    ELSE LET f == Head(files)
         IN  IF f \notin w.processed_files
                /\ ~_is_excluded(f, _keep_dirs, _exclude_keywords)
             THEN CleanEpisodes(
                      _perform_cleanup([w EXCEPT !.stats.matched = @ + 1], f),
                      Tail(files))
             ELSE CleanEpisodes(w, Tail(files))

\* a plausible bug: the directory the descent ends at is cleaned even when it
\* is the local root
_do_deep_search_root_candidate(w, strm_path, local_base, parts) ==
    LET current == Descend(w.fs, local_base, parts, 1)
    IN  IF current = <<>> THEN w
        ELSE IF DeepSearchTag(stem(strm_path)) # <<>>
        THEN IF exists(w.fs, current)
             THEN _recursive_check_and_cleanup(
                      CleanEpisodes(w, Listing(
                          {f \in iterdir(w.fs, current) :
                              /\ is_file(w.fs, f)
                              /\ LowerToken(suffix(f)) \in MEDIA_EXTENSIONS
                              /\ CarriesTag(name(f),
                                            DeepSearchTag(stem(strm_path)))})),
                      current)
             ELSE w
        ELSE IF current \notin w.processed_files
        THEN _do_cleanup_dir([w EXCEPT !.stats.matched = @ + 1], current)
        ELSE w

\* _do_deep_search
_do_deep_search(w, strm_path, local_base, parts) ==
    LET current == Descend(w.fs, local_base, parts, 1)
        se == DeepSearchTag(stem(strm_path))
    IN  IF current = <<>> THEN w
        ELSE IF se # <<>>
        THEN IF exists(w.fs, current)
             THEN _recursive_check_and_cleanup(
                      CleanEpisodes(w, Listing(
                          {f \in iterdir(w.fs, current) :
                              /\ is_file(w.fs, f)
                              /\ LowerToken(suffix(f)) \in MEDIA_EXTENSIONS
                              /\ CarriesTag(name(f), se)})),
                      current)
             ELSE w
        ELSE IF current # local_base /\ current \notin w.processed_files
        THEN _do_cleanup_dir([w EXCEPT !.stats.matched = @ + 1], current)
        ELSE w

\* the length past which _save_history drops the oldest entries
HistoryCap == 100

\* a plausible bug: on overflow the slice drops the newest entry instead of
\* the oldest
_save_history_drops_newest(w, strm_path, action, files_list) ==
    LET history == <<[strm_path |-> strm_path, action |-> action,
                      files |-> files_list]>> \o w.history
    IN  [w EXCEPT !.history = IF Len(history) > HistoryCap
                              THEN SubSeq(history, 2, HistoryCap + 1)
                              ELSE history,
                  !.log.saved = TRUE]

\* _save_history
_save_history(w, strm_path, action, files_list) ==
    LET history == <<[strm_path |-> strm_path, action |-> action,
                      files |-> files_list]>> \o w.history
    IN  [w EXCEPT !.history = IF Len(history) > HistoryCap
                              THEN SubSeq(history, 1, HistoryCap)
                              ELSE history,
                  !.log.saved = TRUE]

\* a plausible bug: the query is issued without an identity and returns
\* every record
_find_by_transfer_history_any(w, strm_path, local_base, tmdb_id_in) ==
    [files |-> SelectSeq(w.transfers,
                         LAMBDA r : startswith(r.dest, local_base)),
     queries |-> 1, failed |-> FALSE]

\* a plausible bug: a failed query is issued again and its result used
_find_by_transfer_history_retries(w, strm_path, local_base, tmdb_id_in) ==
    LET tmdb_id == IF tmdb_id_in # 0 THEN tmdb_id_in
                   ELSE ExtractTmdbId(strm_path)
        found == SelectSeq(get_by(w.transfers, tmdb_id,
                                  SearchSeasonEpisode(stem(strm_path), 1)),
                           LAMBDA r : startswith(r.dest, local_base))
    IN  IF tmdb_id = 0
        THEN [files |-> <<>>, queries |-> 0, failed |-> FALSE]
        ELSE IF w.faults.query
        THEN [files |-> found, queries |-> 2, failed |-> TRUE]
        ELSE [files |-> found, queries |-> 1, failed |-> FALSE]

\* _find_by_transfer_history: the matched files, with the number of queries
\* issued and whether the query failed
_find_by_transfer_history(w, strm_path, local_base, tmdb_id_in) ==
    LET tmdb_id == IF tmdb_id_in # 0 THEN tmdb_id_in
                   ELSE ExtractTmdbId(strm_path)
        se == SearchSeasonEpisode(stem(strm_path), 1)
        transfer_records == get_by(w.transfers, tmdb_id, se)
    IN  IF tmdb_id = 0
        THEN [files |-> <<>>, queries |-> 0, failed |-> FALSE]
        ELSE IF w.faults.query
        THEN [files |-> <<>>, queries |-> 1, failed |-> TRUE]
        ELSE [files |-> SelectSeq(transfer_records,
                          LAMBDA r : /\ r.dest # <<>>
                                     /\ startswith(r.dest, local_base)
                                     /\ ~_is_excluded(r.dest, _keep_dirs,
                                                      _exclude_keywords)),
              queries |-> 1, failed |-> FALSE]

\* the exact-match loop of _handle_single_file
RECURSIVE CleanMatched(_, _)
CleanMatched(w, records) ==
    IF records = <<>> THEN w
    ELSE CleanMatched(
             _recursive_check_and_cleanup(
                 _perform_cleanup(w, Head(records).dest),
                 parent(Head(records).dest)),
             Tail(records))

ActionLabel == IF _notify_only THEN "would_delete" ELSE "cleaned"

\* a plausible bug: after a successful exact match the task goes on to deep
\* search as well
Reconcile_falls_through(w, strm_path, local_base, parts) ==
    LET found == _find_by_transfer_history(w, strm_path, local_base,
                                           ExtractTmdbId(strm_path))
        w1 == [w EXCEPT !.log.local_base = local_base,
                        !.log.queries = found.queries,
                        !.log.query_failed = found.failed,
                        !.log.exact = [i \in 1..Len(found.files) |->
                                          found.files[i].dest]]
        w2 == CleanMatched(
                  [w1 EXCEPT !.stats.matched = @ + Len(found.files)],
                  found.files)
        w3 == IF _deep_search
              THEN _do_deep_search([w2 EXCEPT !.log.deep = TRUE],
                                   strm_path, local_base, parts)
              ELSE w2
    IN  _save_history(w3, strm_path,
                      IF w3.processed_files # {} THEN ActionLabel
                      ELSE "not_found",
                      w3.processed_files)

\* _handle_single_file, steps 6 and 7, with the mapping found
Reconcile(w, strm_path, local_base, parts) ==
    LET found == _find_by_transfer_history(w, strm_path, local_base,
                                           ExtractTmdbId(strm_path))
        w1 == [w EXCEPT !.log.local_base = local_base,
                        !.log.queries = found.queries,
                        !.log.query_failed = found.failed,
                        !.log.exact = [i \in 1..Len(found.files) |->
                                          found.files[i].dest]]
    IN  IF found.files # <<>>
        THEN LET w2 == CleanMatched(
                           [w1 EXCEPT !.stats.matched = @ + Len(found.files)],
                           found.files)
             IN  _save_history(w2, strm_path, ActionLabel,
                               IF _notify_only
                               THEN {found.files[i].dest :
                                        i \in 1..Len(found.files)}
                               ELSE w2.processed_files)
        ELSE IF _deep_search
        THEN LET w2 == _do_deep_search([w1 EXCEPT !.log.deep = TRUE],
                                       strm_path, local_base, parts)
             IN  IF w2.processed_files # {}
                 THEN _save_history(w2, strm_path, ActionLabel,
                                    w2.processed_files)
                 ELSE _save_history(w2, strm_path, "not_found", {})
        ELSE _save_history(w1, strm_path, "not_found", {})

\* a plausible bug: the pointer is reconciled against a default local root
\* when no mapping is found
NoMapping_default_root(w, strm_path) ==
    Reconcile(w, strm_path, LocalRoot, split(strip(strm_path)))

NoMapping(w, strm_path) == w

\* _handle_single_file
_handle_single_file(w0, strm_path) ==
    LET w == [w0 EXCEPT !.stats.scanned = @ + 1, !.processed_files = {},
                        !.log = NoLog]
        m == FindMapping(_path_mappings, strm_path)
    IN  IF _check_exclusion(strm_path, _keep_dirs, _exclude_keywords) # None
        THEN w
        ELSE IF m = 0 THEN NoMapping(w, strm_path)
        ELSE Reconcile(w, strm_path, _path_mappings[m].l,
                       split(strip(SubSeq(strm_path,
                                          Len(_path_mappings[m].s) + 1,
                                          Len(strm_path)))))

-----------------------------------------------------------------------------
(* The pure rules applied to drawn inputs *)

\* StrmDeLocal.__init__: no observer, an empty queue, no worker, flag clear
NoService ==
    /\ _queue = <<>>
    /\ _stop_event = FALSE
    /\ _worker_thread = 0
    /\ _observer = FALSE
    /\ workers = <<>>
    /\ started = 0
    /\ delivered = 0
    /\ caller = [pc |-> "idle"]
    /\ now = 0
    /\ handled = <<>>
    /\ notifications = <<>>

\* the accumulator _process_queue_loop starts with
EmptyStats ==
    [scanned |-> 0, matched |-> 0, deleted |-> 0, failed |-> 0,
     deleted_files |-> <<>>]

\* nothing on disk, nothing indexed, no task handled
NoLibrary ==
    /\ local_fs = {}
    /\ transfer_history = <<>>
    /\ sent_events = <<>>
    /\ task_stats = EmptyStats
    /\ saved_history = <<>>
    /\ log = NoLog
    /\ pre = [strm_path |-> <<>>]
    /\ tasks = 0

DefaultConfig ==
    /\ _notify_only = TRUE
    /\ _send_notify = TRUE
    /\ _clean_metadata = FALSE
    /\ _delete_torrent = FALSE
    /\ _remove_record = FALSE
    /\ _deep_search = FALSE

InitMapping ==
    /\ DefaultConfig
    /\ _path_mappings \in SeqUpTo(MappingLines, MaxMappings)
    /\ _keep_dirs = <<>>
    /\ _exclude_keywords = <<>>
    /\ arg \in StrmPaths
    /\ ret = [op |-> "none"]
    /\ NoService
    /\ NoLibrary

LookupMapping ==
    /\ ret.op = "none"
    /\ ret' = [op |-> "mapping", index |-> FindMapping(_path_mappings, arg)]
    /\ UNCHANGED <<cfgVars, arg, loopVars, taskVars>>

NextMapping == LookupMapping

SpecMapping == InitMapping /\ [][NextMapping]_vars

InitExclusion ==
    /\ DefaultConfig
    /\ _path_mappings = <<>>
    /\ _keep_dirs \in SeqUpTo(ExclusionTokens, MaxTokens)
    /\ _exclude_keywords \in SeqUpTo(ExclusionTokens, MaxTokens)
    /\ arg \in StrmPaths
    /\ ret = [op |-> "none"]
    /\ NoService
    /\ NoLibrary

CheckExclusion ==
    /\ ret.op = "none"
    /\ ret' = [op |-> "exclusion",
               token |-> _check_exclusion(arg, _keep_dirs, _exclude_keywords)]
    /\ UNCHANGED <<cfgVars, arg, loopVars, taskVars>>

NextExclusion == CheckExclusion

SpecExclusion == InitExclusion /\ [][NextExclusion]_vars

-----------------------------------------------------------------------------
(* The service: observer, queue and worker threads *)

\* the debounce window of _process_queue_loop, in seconds
DedupWindow == 5
\* the size past which processed_cache is cleared
CacheLimit == 1000
\* the timeout of _worker_thread.join in stop_service, in seconds
JoinTimeout == 1

\* the pointer paths the observer delivers to the queue under test
LoopPaths == {P_movie, P_episode}

\* the None that stop_service puts into the queue
Sentinel == [path |-> None, at |-> 0]

\* the locals of _process_queue_loop when the thread starts
\* (busy_at_stop records that stop_service ran while the thread was inside
\* _handle_single_file)
NewWorker ==
    [pc |-> "while", has_data |-> FALSE, stats |-> EmptyStats,
     processed_cache |-> <<>>, task |-> None, busy_at_stop |-> FALSE]

Threads == 1..Len(workers)
Alive(t) == workers[t].pc \notin {"exited", "crashed"}

\* a thread that ended: its locals are gone
Ended(how) == [NewWorker EXCEPT !.pc = how]

\* the threads as stop_service finds them when it sets the flag
AtStop(ws) ==
    [t \in DOMAIN ws |->
        IF ws[t].pc = "handle" THEN [ws[t] EXCEPT !.busy_at_stop = TRUE]
        ELSE ws[t]]

InitLoop ==
    /\ _notify_only = TRUE
    /\ _send_notify \in BOOLEAN
    /\ _clean_metadata = FALSE
    /\ _delete_torrent = FALSE
    /\ _remove_record = FALSE
    /\ _deep_search = FALSE
    /\ _path_mappings = <<Mapping(SrcRoot, LocalRoot)>>
    /\ _keep_dirs = <<>>
    /\ _exclude_keywords = <<>>
    /\ arg = None
    /\ ret = [op |-> "none"]
    /\ NoService
    /\ NoLibrary

\* start_service: clear the flag, start a new worker thread, start the observer
\* (the monitored source root exists, so active_count > 0)
start_service(stop_event, wt, obs, old, ws, n) ==
    /\ stop_event = FALSE
    /\ ws = Append(old, NewWorker)
    /\ wt = Len(old) + 1
    /\ n = started + 1
    /\ obs = TRUE

\* stop_service up to the join: stop the observer, set the flag, and with a
\* worker thread recorded put None into the queue and wait for the thread in
\* join(timeout=1); then_start tells whether init_plugin goes on to
\* start_service
BeginStop(then_start) ==
    /\ caller.pc = "idle"
    /\ then_start => started < MaxThreads
    /\ IF _worker_thread # 0
       THEN /\ _observer' = FALSE
            /\ _stop_event' = TRUE
            /\ _queue' = Append(_queue, Sentinel)
            /\ caller' = [pc |-> "join", since |-> now, then_start |-> then_start]
            /\ workers' = AtStop(workers)
            /\ UNCHANGED <<_worker_thread, started>>
       ELSE /\ _queue' = _queue
            /\ caller' = caller
            /\ IF then_start
               THEN start_service(_stop_event', _worker_thread', _observer',
                                  AtStop(workers), workers', started')
               ELSE /\ _observer' = FALSE
                    /\ _stop_event' = TRUE
                    /\ workers' = AtStop(workers)
                    /\ UNCHANGED <<_worker_thread, started>>
    /\ UNCHANGED <<cfgVars, fnVars, taskVars, delivered, now, handled, notifications>>

\* init_plugin: stop_service, then start_service when the plugin is enabled
init_plugin(enabled) == BeginStop(enabled)

\* stop_service called on its own
stop_service == BeginStop(FALSE)

\* join(timeout=1) returns (the thread ended, or a second passed); the thread
\* is forgotten, and init_plugin starts the service again
JoinReturns ==
    /\ caller.pc = "join"
    /\ \/ ~Alive(_worker_thread)
       \/ now - caller.since >= JoinTimeout
    /\ caller' = [pc |-> "idle"]
    /\ IF caller.then_start
       THEN start_service(_stop_event', _worker_thread', _observer',
                          workers, workers', started')
       ELSE /\ _worker_thread' = 0
            /\ UNCHANGED <<_stop_event, _observer, workers, started>>
    /\ UNCHANGED <<cfgVars, fnVars, taskVars, _queue, delivered, now, handled,
                   notifications>>

\* StrmFileHandler.on_created / on_moved: a pointer file appears; its path is put
Deliver(p) ==
    /\ _observer
    /\ delivered < MaxEvents
    /\ _queue' = Append(_queue, [path |-> p, at |-> now])
    /\ delivered' = delivered + 1
    /\ UNCHANGED <<cfgVars, fnVars, taskVars, _stop_event, _worker_thread, _observer,
                   workers, started, caller, now, handled, notifications>>

on_created(p) == Deliver(p)

on_moved(p) == Deliver(p)

\* while not self._stop_event.is_set()
WhileTest(t) ==
    /\ workers[t].pc = "while"
    /\ workers' = [workers EXCEPT ![t] =
                      IF _stop_event THEN Ended("exited")
                      ELSE [@ EXCEPT !.pc = "get"]]
    /\ UNCHANGED <<cfgVars, fnVars, taskVars, svcVars, started, delivered, caller, now,
                   handled, notifications>>

\* queue.get returns None: break
GetSentinel(t) ==
    /\ workers[t].pc = "get"
    /\ _queue # <<>>
    /\ Head(_queue) = Sentinel
    /\ _queue' = Tail(_queue)
    /\ workers' = [workers EXCEPT ![t] = Ended("exited")]
    /\ UNCHANGED <<cfgVars, fnVars, taskVars, _stop_event, _worker_thread, _observer,
                   started, delivered, caller, now, handled, notifications>>

\* the path was recorded less than 5 seconds ago (an absent entry reads as 0,
\* the epoch, which is never within 5 seconds of time.time())
IsDuplicate(cache, p, t_now) ==
    /\ p \in DOMAIN cache
    /\ t_now - cache[p] < DedupWindow

\* a plausible bug: on overflow the oldest entry is evicted and the rest kept
Remember_evicts_oldest(cache, p, t_now) ==
    LET c == [q \in DOMAIN cache \cup {p} |-> IF q = p THEN t_now ELSE cache[q]]
    IN  IF Cardinality(DOMAIN c) > CacheLimit
        THEN LET oldest == CHOOSE q \in DOMAIN c :
                               \A r \in DOMAIN c : c[q] <= c[r]
             IN  [q \in DOMAIN c \ {oldest} |-> c[q]]
        ELSE c

\* processed_cache[path_str] = now; cleared whole when it exceeds the limit
Remember(cache, p, t_now) ==
    LET c == [q \in DOMAIN cache \cup {p} |-> IF q = p THEN t_now ELSE cache[q]]
    IN  IF Cardinality(DOMAIN c) > CacheLimit THEN <<>> ELSE c

\* queue.get returns a path seen less than 5 seconds ago: task_done, continue
GetDuplicate(t) ==
    /\ workers[t].pc = "get"
    /\ _queue # <<>>
    /\ Head(_queue) # Sentinel
    /\ IsDuplicate(workers[t].processed_cache, Head(_queue).path, now)
    /\ _queue' = Tail(_queue)
    /\ workers' = [workers EXCEPT ![t].pc = "while"]
    /\ UNCHANGED <<cfgVars, fnVars, taskVars, _stop_event, _worker_thread, _observer,
                   started, delivered, caller, now, handled, notifications>>

\* queue.get returns a path to process: it is recorded, has_data is set and
\* _handle_single_file starts (its first effect is stats["scanned"] += 1)
GetTask(t) ==
    /\ workers[t].pc = "get"
    /\ _queue # <<>>
    /\ Head(_queue) # Sentinel
    /\ ~IsDuplicate(workers[t].processed_cache, Head(_queue).path, now)
    /\ _queue' = Tail(_queue)
    /\ workers' = [workers EXCEPT
          ![t].pc = "handle",
          ![t].task = Head(_queue).path,
          ![t].has_data = TRUE,
          ![t].stats.scanned = @ + 1,
          ![t].processed_cache = Remember(@, Head(_queue).path, now)]
    /\ handled' = Append(handled, Head(_queue))
    /\ UNCHANGED <<cfgVars, fnVars, taskVars, _stop_event, _worker_thread, _observer,
                   started, delivered, caller, now, notifications>>

\* _handle_single_file returns: task_done, next iteration
HandleReturns(t) ==
    /\ workers[t].pc = "handle"
    /\ workers' = [workers EXCEPT ![t].pc = "while", ![t].task = None]
    /\ UNCHANGED <<cfgVars, fnVars, taskVars, svcVars, started, delivered, caller, now,
                   handled, notifications>>

\* _handle_single_file raises: the bare except logs and clears has_data
HandleRaises(t) ==
    /\ workers[t].pc = "handle"
    /\ workers' = [workers EXCEPT ![t].pc = "while", ![t].task = None,
                                  ![t].has_data = FALSE]
    /\ UNCHANGED <<cfgVars, fnVars, taskVars, svcVars, started, delivered, caller, now,
                   handled, notifications>>

\* a plausible bug: the batch is posted without looking at _send_notify
Posts_ignores_setting(stats) == stats.scanned # 0

\* _send_batch_notification reaches post_message
Posts(stats) == _send_notify /\ stats.scanned # 0

\* queue.get times out (Empty): with has_data, the statistics are sent and
\* reset
IdleTimeout(t) ==
    /\ workers[t].pc = "get"
    /\ _queue = <<>>
    /\ workers' = [workers EXCEPT
          ![t].pc = "while",
          ![t].stats = IF workers[t].has_data THEN EmptyStats ELSE @,
          ![t].has_data = FALSE]
    /\ notifications' =
          IF workers[t].has_data /\ Posts(workers[t].stats)
          THEN Append(notifications, workers[t].stats)
          ELSE notifications
    /\ UNCHANGED <<cfgVars, fnVars, taskVars, svcVars, started, delivered, caller, now,
                   handled>>

\* queue.get times out (Empty) and post_message raises inside the
\* `except Empty` clause: the following bare except does not cover it
IdleTimeoutPostRaises(t) ==
    /\ workers[t].pc = "get"
    /\ _queue = <<>>
    /\ workers[t].has_data
    /\ Posts(workers[t].stats)
    /\ workers' = [workers EXCEPT ![t] = Ended("crashed")]
    /\ UNCHANGED <<cfgVars, fnVars, taskVars, svcVars, started, delivered, caller, now,
                   handled, notifications>>

\* some thread has a step that takes no time
Urgent ==
    \/ \E t \in Threads :
          \/ workers[t].pc = "while"
          \/ workers[t].pc = "get" /\ _queue # <<>>
    \/ caller.pc = "join" /\ ~Alive(_worker_thread)

\* some time stamp is held that a later reading of the clock is compared with
Timed ==
    \/ \E i \in 1..Len(_queue) : _queue[i] # Sentinel
    \/ \E t \in Threads : Alive(t) /\ workers[t].processed_cache # <<>>
    \/ caller.pc = "join"

\* a second passes while every thread waits or works (the clock is read
\* only against the stamps held, so it is left alone while there are none)
Tick ==
    /\ ~Urgent
    /\ Timed
    /\ now < MaxTime
    /\ now' = now + 1
    /\ UNCHANGED <<cfgVars, fnVars, taskVars, svcVars, workers, started, delivered,
                   caller, handled, notifications>>

NextLoop ==
    \/ \E enabled \in BOOLEAN : init_plugin(enabled)
    \/ stop_service
    \/ JoinReturns
    \/ \E p \in LoopPaths : on_created(p)
    \/ \E p \in LoopPaths : on_moved(p)
    \/ \E t \in Threads : WhileTest(t)
    \/ \E t \in Threads : GetSentinel(t)
    \/ \E t \in Threads : GetDuplicate(t)
    \/ \E t \in Threads : GetTask(t)
    \/ \E t \in Threads : HandleReturns(t)
    \/ \E t \in Threads : HandleRaises(t)
    \/ \E t \in Threads : IdleTimeout(t)
    \/ \E t \in Threads : IdleTimeoutPostRaises(t)
    \/ Tick

SpecLoop == InitLoop /\ [][NextLoop]_vars

-----------------------------------------------------------------------------
(* Tasks handled one after the other by the worker *)

Tree_full == WithAncestors(LocalFiles)
Tree_single == WithAncestors({F_ep1, F_ep1_nfo})
Tree_two == WithAncestors({F_movie, F_movie_nfo, F_movie_poster, F_ep1})
\* scraped files left behind without their media
Tree_orphan == WithAncestors({F_movie_nfo, F_movie_poster, F_ep1_nfo})
\* two directories that the name-and-year rule both accepts
Tree_twins == WithAncestors({F_movie, F_remake})
InitialTrees == {Tree_full, Tree_single, Tree_two, Tree_orphan, Tree_twins}

InitialIndexes == {<<>>, <<R_movie, R_ep1, R_ep2>>}

InitTask ==
    /\ _notify_only \in BOOLEAN
    /\ _send_notify = TRUE
    /\ _clean_metadata \in BOOLEAN
    /\ _delete_torrent \in BOOLEAN
    /\ _remove_record \in BOOLEAN
    /\ _deep_search \in BOOLEAN
    /\ _path_mappings = <<NoColon(SrcRoot), Mapping(SrcRoot, LocalRoot)>>
    /\ _keep_dirs \in {<<>>, <<<<"Season">>, <<"poster">>>>}
    /\ _exclude_keywords = <<>>
    /\ arg = None
    /\ ret = [op |-> "none"]
    /\ NoService
    /\ local_fs \in InitialTrees
    /\ transfer_history \in InitialIndexes
    /\ sent_events = <<>>
    /\ task_stats = EmptyStats
    /\ saved_history = <<>>
    /\ log = NoLog
    /\ pre = [strm_path |-> <<>>]
    /\ tasks = 0

\* the state the task leaves behind
Commit(w) ==
    /\ local_fs' = w.fs
    /\ transfer_history' = w.transfers
    /\ sent_events' = w.events
    /\ task_stats' = w.stats
    /\ saved_history' = w.history
    /\ log' = w.log

\* the worker hands a dequeued path to _handle_single_file; query_fails tells
\* whether TransferHistoryOper.get_by raises during the task, unlink_fails
\* whether Path.unlink of a media file does, rmtree_fails whether
\* shutil.rmtree does
RunTask(strm_path, faults) ==
    /\ tasks < MaxTasks
    /\ Commit(_handle_single_file(
                  [fs |-> local_fs, transfers |-> transfer_history,
                   events |-> sent_events, stats |-> task_stats,
                   processed_files |-> {}, history |-> saved_history,
                   faults |-> faults, log |-> log],
                  strm_path))
    /\ pre' = [strm_path |-> strm_path, fs |-> local_fs,
               transfers |-> transfer_history, events |-> sent_events,
               stats |-> task_stats, history |-> saved_history, log |-> log]
    /\ tasks' = tasks + 1
    /\ UNCHANGED <<cfgVars, fnVars, loopVars>>

HandleTask(strm_path, query_fails, unlink_fails, rmtree_fails) ==
    RunTask(strm_path, [NoFaults EXCEPT !.query = query_fails,
                                        !.unlink = unlink_fails,
                                        !.rmtree = rmtree_fails])

\* the pointer paths handed to the worker
TaskPaths == {P_movie, P_episode, P_noid, P_unmapped, P_bare, P_flat}

\* the call that fails during a task, if any
Faults == {"none", "query", "unlink", "rmtree"}

NextTask ==
    \E strm_path \in TaskPaths, fault \in Faults :
        HandleTask(strm_path, fault = "query", fault = "unlink",
                   fault = "rmtree")

SpecTask == InitTask /\ [][NextTask]_vars

-----------------------------------------------------------------------------
(* Tasks in active mode during which one sub-operation of the cleanup fails *)

\* two versions of the movie are indexed, each with its record
IsolationIndex == <<R_movie, R_remake, R_ep1, R_ep2>>

InitIsolation ==
    /\ _notify_only = FALSE
    /\ _send_notify = TRUE
    /\ _clean_metadata \in BOOLEAN
    /\ _delete_torrent \in BOOLEAN
    /\ _remove_record \in BOOLEAN
    /\ _deep_search \in BOOLEAN
    /\ _path_mappings = <<NoColon(SrcRoot), Mapping(SrcRoot, LocalRoot)>>
    /\ _keep_dirs = <<>>
    /\ _exclude_keywords = <<>>
    /\ arg = None
    /\ ret = [op |-> "none"]
    /\ NoService
    /\ local_fs \in {Tree_full, Tree_twins}
    /\ transfer_history = IsolationIndex
    /\ sent_events = <<>>
    /\ task_stats = EmptyStats
    /\ saved_history = <<>>
    /\ log = NoLog
    /\ pre = [strm_path |-> <<>>]
    /\ tasks = 0

\* the sub-operations of the cleanup that can be made to raise
CleanupSteps == {"lookup", "meta", "hash", "event", "delete"}

\* a task during which every call of one sub-operation raises
CleanupTask(strm_path, step) ==
    RunTask(strm_path, [NoFaults EXCEPT ![step] = TRUE])

NextIsolation ==
    \E strm_path \in {P_movie, P_episode, P_noid}, step \in CleanupSteps :
        CleanupTask(strm_path, step)

SpecIsolation == InitIsolation /\ [][NextIsolation]_vars

-----------------------------------------------------------------------------
(* The stored history under a long run of saves *)

\* the pointer path of the k-th task of the run
NumberedPath(k) == <<"/", "s", "/", ToString(k), ".strm">>

InitHistory ==
    /\ DefaultConfig
    /\ _path_mappings = <<Mapping(SrcRoot, LocalRoot)>>
    /\ _keep_dirs = <<>>
    /\ _exclude_keywords = <<>>
    /\ arg = None
    /\ ret = [op |-> "none"]
    /\ NoService
    /\ NoLibrary

\* a task ends by calling _save_history: with the files it found, or as not
\* found
SaveHistory(found) ==
    /\ tasks < MaxSaves
    /\ saved_history' =
          _save_history([history |-> saved_history, log |-> NoLog],
                        NumberedPath(tasks + 1),
                        IF found THEN ActionLabel ELSE "not_found",
                        IF found THEN {F_movie} ELSE {}).history
    /\ tasks' = tasks + 1
    /\ UNCHANGED <<cfgVars, fnVars, loopVars, local_fs, transfer_history,
                   sent_events, task_stats, log, pre>>

\* (every second task of the run finds its file)
NextHistory == SaveHistory(tasks % 2 = 0)

SpecHistory == InitHistory /\ [][NextHistory]_vars

-----------------------------------------------------------------------------
(* One worker dequeuing a long run of distinct pointer paths *)

\* the service as start_service leaves it, the worker waiting in queue.get
InitCache ==
    /\ DefaultConfig
    /\ _path_mappings = <<Mapping(SrcRoot, LocalRoot)>>
    /\ _keep_dirs = <<>>
    /\ _exclude_keywords = <<>>
    /\ arg = None
    /\ ret = [op |-> "none"]
    /\ _queue = <<>>
    /\ _stop_event = FALSE
    /\ _worker_thread = 1
    /\ _observer = TRUE
    /\ workers = <<[NewWorker EXCEPT !.pc = "get"]>>
    /\ started = 1
    /\ delivered = 0
    /\ caller = [pc |-> "idle"]
    /\ now = 0
    /\ handled = <<>>
    /\ notifications = <<>>
    /\ NoLibrary

\* one iteration of the loop on a path put a second after the previous one:
\* the path is looked up in processed_cache, recorded, the cache cleared when
\* it exceeds the limit, and the task handled
Iterate(p) ==
    /\ tasks < MaxRecorded
    /\ workers[1].pc = "get"
    /\ ~IsDuplicate(workers[1].processed_cache, p, now)
    /\ workers' = [workers EXCEPT
          ![1].has_data = TRUE,
          ![1].stats.scanned = @ + 1,
          ![1].processed_cache = Remember(@, p, now)]
    /\ now' = now + 1
    /\ tasks' = tasks + 1
    /\ UNCHANGED <<cfgVars, fnVars, svcVars, started, delivered, caller,
                   handled, notifications, local_fs, transfer_history,
                   sent_events, task_stats, saved_history, log, pre>>

NextCache == Iterate(NumberedPath(tasks + 1))

SpecCache == InitCache /\ [][NextCache]_vars

-----------------------------------------------------------------------------
(* Claims *)

\* the lines of the list whose source root prefixes the path
PrefixingLines(mappings, p) ==
    {i \in 1..Len(mappings) : mappings[i].colon /\ startswith(p, mappings[i].s)}

\* C8: whenever some configured source root prefixes the pointer path, the
\* lookup selects the smallest index of such a mapping, whatever longer or
\* more specific mappings also prefix the path.
C8_FirstConfiguredMatch ==
    ret.op = "mapping" =>
        LET hits == PrefixingLines(_path_mappings, arg)
        IN  hits # {} =>
                /\ ret.index \in hits
                /\ \A j \in hits : ret.index <= j

\* C8 witness: the first mapping is chosen although a later mapping with a
\* longer source root also prefixes the path.
C8_Witness ==
    /\ ret.op = "mapping"
    /\ ret.index = 1
    /\ \E j \in PrefixingLines(_path_mappings, arg) :
          j > 1 /\ Len(_path_mappings[j].s) > Len(_path_mappings[1].s)

\* the tokens of a list that are substrings of the path
Hits(tokens, p) == {tokens[i] : i \in {j \in 1..Len(tokens) : contains(p, tokens[j])}}

\* C10: _check_exclusion returns a keep_dirs token whenever one is a substring
\* of the path, even if an exclude_keywords token matches too; an
\* exclude_keywords token only when no keep_dirs token matches; None only when
\* no token of either list is a substring.
C10_KeepDirsFirst ==
    ret.op = "exclusion" =>
        LET k == Hits(_keep_dirs, arg)
            e == Hits(_exclude_keywords, arg)
        IN  /\ k # {} => ret.token \in k
            /\ (k = {} /\ e # {}) => ret.token \in e
            /\ (k = {} /\ e = {}) <=> ret.token = None

\* C10 witness: a keep_dirs token is returned while a different
\* exclude_keywords token is a substring of the path as well.
C10_Witness ==
    /\ ret.op = "exclusion"
    /\ ret.token \in Hits(_keep_dirs, arg)
    /\ Hits(_exclude_keywords, arg) # {}
    /\ ret.token \notin Hits(_exclude_keywords, arg)

\* C1: a pointer path submitted twice within 5 seconds is handed to
\* _handle_single_file only once, whatever the interleaving with other
\* events and however long the first task takes. Stated of the runs in which
\* the service was started once (one worker thread, one dedup cache), so that
\* no restart is involved.
C1_OncePerWindow ==
    started <= 1 =>
        \A i, j \in 1..Len(handled) :
            (/\ i < j
             /\ handled[i].path = handled[j].path
             /\ handled[j].at - handled[i].at < DedupWindow
             /\ handled[i].at - handled[j].at < DedupWindow) => FALSE

\* C2: never are two worker threads both inside _handle_single_file.
C2_OneInFlight ==
    Cardinality({t \in Threads : workers[t].pc = "handle"}) <= 1

\* C5: no exception escapes the worker loop: a worker thread ends only by
\* leaving its loop (stop flag or sentinel), never by an exception.
C5_NoEscape ==
    \A t \in Threads : workers[t].pc # "crashed"

\* the last task left the tree, the index and the sent events as they were
Untouched ==
    /\ local_fs = pre.fs
    /\ transfer_history = pre.transfers
    /\ sent_events = pre.events

\* the last task matched and cleaned nothing
NothingMatched ==
    /\ log.cleaned = {}
    /\ task_stats.matched = pre.stats.matched
    /\ task_stats.deleted = pre.stats.deleted

\* C3: in dry-run no task mutates anything: no media file unlinked, no metadata
\* sibling deleted, no directory removed by directory cleanup or by
\* reclamation, no transfer record deleted, no event emitted, on every route
\* and for every toggle setting; the candidates are recorded in the task's
\* history entry as a would-delete outcome.
C3_DryRunMutatesNothing ==
    (_notify_only /\ tasks > 0) =>
        /\ Untouched
        /\ log.unlinked = {}
        /\ log.meta = {}
        /\ log.rmtree = {}
        /\ log.reclaimed = <<>>
        /\ task_stats.deleted = 0
        /\ log.cleaned # {} =>
              /\ saved_history # <<>>
              /\ Head(saved_history).strm_path = pre.strm_path
              /\ Head(saved_history).action = "would_delete"
              /\ log.cleaned \subseteq Head(saved_history).files

\* C3 witness: with every toggle on, a dry-run task found a directory by deep
\* search after a dry-run task found an existing file by the exact route;
\* both are still on disk.
C3_Witness ==
    /\ _notify_only /\ _clean_metadata /\ _delete_torrent /\ _remove_record
    /\ tasks = 2
    /\ pre.log.exact # <<>>
    /\ pre.log.cleaned \subseteq local_fs
    /\ log.deep
    /\ log.cleaned # {}
    /\ log.cleaned \subseteq local_fs
    /\ Head(saved_history).action = "would_delete"

\* what has_valid_content looks for, read off a tree: a subdirectory or a
\* media file directly under d
HoldsContent(tree, d) ==
    \E q \in tree :
        /\ parent(q) = d
        /\ \/ q \in LocalDirs
           \/ LowerToken(suffix(q)) \in MEDIA_EXTENSIONS

\* C4: reclamation never removes a directory that, when it is checked, holds
\* a subdirectory or a media file, at every level of the upward walk; every
\* directory a task removed was removed by directory cleanup or was such a
\* reclaimed directory; in dry-run nothing is reclaimed.
C4_ReclaimOnlyEmpty ==
    tasks > 0 =>
        /\ \A i \in 1..Len(log.reclaimed) :
              /\ log.reclaimed[i].dir \in log.reclaimed[i].seen
              /\ ~HoldsContent(log.reclaimed[i].seen, log.reclaimed[i].dir)
        /\ \A d \in (pre.fs \ local_fs) \cap LocalDirs :
              \/ \E r \in log.rmtree : d \in Subtree(pre.fs, r)
              \/ \E i \in 1..Len(log.reclaimed) : log.reclaimed[i].dir = d
        /\ _notify_only => log.reclaimed = <<>>

\* C4 witness: the walk reclaimed two levels and stopped at a parent that is
\* still on disk because it holds content.
C4_Witness ==
    /\ ~_notify_only
    /\ Len(log.reclaimed) = 2
    /\ log.reclaimed[2].dir = parent(log.reclaimed[1].dir)
    /\ parent(log.reclaimed[2].dir) \in local_fs
    /\ HoldsContent(local_fs, parent(log.reclaimed[2].dir))

\* C6 as stated: when the identity query fails, no candidate is matched or
\* cleaned by any route, deep search included, and nothing is retried.
C6_QueryFailureFailsTask ==
    (tasks > 0 /\ log.query_failed) =>
        /\ log.queries = 1
        /\ NothingMatched
        /\ Untouched

\* C6 amended: when the identity query fails, it is issued once, the exact
\* route yields no candidate and the task runs to its end; without deep search
\* nothing is matched or cleaned; with deep search the fallback runs and
\* whatever is cleaned comes from it; the following task is processed.
C6_QueryFailureFailsExactMatch ==
    /\ (tasks > 0 /\ log.query_failed) =>
          /\ log.queries = 1
          /\ log.exact = <<>>
          /\ log.saved
          /\ log.deep <=> _deep_search
          /\ log.cleaned # {} => log.deep
          /\ ~_deep_search => (NothingMatched /\ Untouched)
    /\ (tasks > 1 /\ pre.log.query_failed) =>
          task_stats.scanned = pre.stats.scanned + 1

\* C6 witness: the query failed and deep search deleted a directory in the
\* same task.
C6_Witness ==
    /\ tasks > 0
    /\ log.query_failed
    /\ ~_notify_only
    /\ log.rmtree # {}
    /\ local_fs # pre.fs

\* C7 as stated: a pointer path without identity issues no query, matches no
\* candidate and deletes nothing, whatever the deep-search setting.
C7_NoIdentitySkipsTask ==
    (tasks > 0 /\ ExtractTmdbId(pre.strm_path) = 0) =>
        /\ log.queries = 0
        /\ NothingMatched
        /\ Untouched

\* C7 amended: a pointer path without identity issues no query and the exact
\* route yields no candidate; without deep search nothing is matched or
\* deleted and the history entry says not found; with deep search the
\* fallback runs and whatever is cleaned comes from it.
C7_NoIdentitySkipsExactMatch ==
    (tasks > 0 /\ ExtractTmdbId(pre.strm_path) = 0) =>
        /\ log.queries = 0
        /\ ~log.query_failed
        /\ log.exact = <<>>
        /\ log.cleaned # {} => log.deep
        /\ ~_deep_search => (NothingMatched /\ Untouched)
        /\ log.local_base # <<>> =>
              /\ log.deep <=> _deep_search
              /\ ~_deep_search => Head(saved_history).action = "not_found"

\* C7 witness: without identity and with deep search on, the task deleted a
\* directory although no query was issued.
C7_Witness ==
    /\ tasks > 0
    /\ ExtractTmdbId(pre.strm_path) = 0
    /\ _deep_search
    /\ ~_notify_only
    /\ log.queries = 0
    /\ log.rmtree # {}

\* C9: when no configured source root prefixes the pointer path the task is
\* skipped: no local root is used, no query is issued, no deep search runs,
\* nothing on disk or in the index changes.
C9_NoMappingSkips ==
    (tasks > 0 /\ PrefixingLines(_path_mappings, pre.strm_path) = {}) =>
        /\ log.local_base = <<>>
        /\ log.queries = 0
        /\ ~log.deep
        /\ NothingMatched
        /\ Untouched
        /\ saved_history = pre.history

\* C9 witness: an unmapped pointer carrying an identity that the index knows
\* was handled in active mode with deep search on, and the record's file is
\* still on disk.
C9_Witness ==
    /\ tasks > 0
    /\ PrefixingLines(_path_mappings, pre.strm_path) = {}
    /\ ExtractTmdbId(pre.strm_path) # 0
    /\ ~_notify_only
    /\ _deep_search
    /\ \E i \in 1..Len(transfer_history) :
          /\ transfer_history[i].tmdbid = ExtractTmdbId(pre.strm_path)
          /\ transfer_history[i].dest \in local_fs
    /\ task_stats.scanned = pre.stats.scanned + 1

\* the paths the last task passed to per-file cleanup in active mode although
\* no file was there
CleanedMissing == {f \in log.cleaned : f \in LocalFiles /\ f \notin pre.fs}

\* C11: per-file cleanup in active mode on a path whose file no longer exists
\* still performs every enabled non-physical step (metadata siblings, event,
\* record deletion) and leaves the failed counter unchanged; the path is not
\* counted as deleted.
C11_MissingFileStillCleaned ==
    (tasks > 0 /\ ~_notify_only) =>
        \A f \in CleanedMissing :
            LET h == get_by_dest(pre.transfers, f)
            IN  /\ task_stats.failed = pre.stats.failed
                /\ f \notin log.unlinked
                /\ _clean_metadata =>
                      \A n \in pre.fs :
                          (parent(n) = parent(f) /\ stem(n) = stem(f)
                              /\ LowerToken(suffix(n)) \in META_EXTENSIONS)
                          => n \notin local_fs
                /\ (_remove_record /\ h # NoRecord) =>
                      get_by_dest(transfer_history, f) = NoRecord
                /\ (_delete_torrent /\ h # NoRecord
                        /\ (h.download_hash # "" \/ h.src # <<>>)) =>
                      Len(sent_events) > Len(pre.events)

\* C11 witness: with every toggle on, a record's file was already gone; its
\* metadata sibling, its record and its torrent were still cleaned.
C11_Witness ==
    /\ tasks > 0 /\ ~_notify_only
    /\ _clean_metadata /\ _remove_record /\ _delete_torrent
    /\ \E f \in CleanedMissing :
          /\ get_by_dest(pre.transfers, f) # NoRecord
          /\ get_by_dest(transfer_history, f) = NoRecord
          /\ \E n \in pre.fs \ local_fs : parent(n) = parent(f)
          /\ sent_events # pre.events
    /\ task_stats.failed = 0

\* C12 as stated: in active mode every failed filesystem operation of a task
\* (unlink of a media file, removal in directory cleanup, removal in
\* reclamation) increments the failed counter.
C12_FailureCounted ==
    (tasks > 0 /\ ~_notify_only) =>
        task_stats.failed = pre.stats.failed + Cardinality(log.fs_failed)

\* C13: a batched notification is sent only by a worker whose queue retrieval
\* timed out, only with send_notify on and at least one item scanned since the
\* last flush, and the flush leaves that worker's accumulator at zero with an
\* empty deleted-file list; has_data, which a flush clears, is set again only
\* by dequeuing a task, so one idle window sends at most once.
C13_FlushOnIdleOnly ==
    [][/\ notifications' # notifications =>
            \E t \in Threads :
                /\ workers[t].pc = "get"
                /\ _queue = <<>>
                /\ workers[t].has_data
                /\ _send_notify
                /\ workers[t].stats.scanned > 0
                /\ notifications' = Append(notifications, workers[t].stats)
                /\ workers'[t].stats = EmptyStats
                /\ ~workers'[t].has_data
       /\ \A t \in Threads :
            (workers'[t].has_data /\ ~workers[t].has_data) =>
                (_queue # <<>> /\ handled' # handled)
      ]_vars

\* C13 witness: two idle windows each sent one batch, and the worker that
\* sent them waits again with an empty accumulator.
C13_Witness ==
    /\ Len(notifications) = 2
    /\ \E t \in Threads :
          /\ workers[t].pc = "get"
          /\ workers[t].stats = EmptyStats
          /\ ~workers[t].has_data
    /\ \A i \in 1..Len(notifications) : notifications[i].scanned > 0

\* C14 as stated: a worker that was inside a task when stop_service ran
\* finishes the task and exits at the loop test; it never waits for another
\* task.
C14_StoppedWorkerExits ==
    \A t \in Threads : workers[t].busy_at_stop => workers[t].pc # "get"

\* C16 as stated (its safety half): once start_service has run and no stop
\* followed, the worker it started has not left its loop: no None put by an
\* earlier stop_service ends it.
C16_NewWorkerSurvives ==
    (_worker_thread # 0 /\ caller.pc = "idle" /\ ~_stop_event) =>
        workers[_worker_thread].pc # "exited"

\* C15: after any sequence of _save_history calls the stored history holds at
\* most 100 entries, newest first, and they are exactly the most recently
\* saved ones.
C15_HistoryCap ==
    /\ Len(saved_history) <= HistoryCap
    /\ Len(saved_history) = IF tasks < HistoryCap THEN tasks ELSE HistoryCap
    /\ \A i \in 1..Len(saved_history) :
          /\ saved_history[i].strm_path = NumberedPath(tasks - i + 1)
          /\ saved_history[i].action =
                IF (tasks - i) % 2 = 0 THEN ActionLabel ELSE "not_found"

\* C15 witness: more than 100 entries were saved, the oldest two are gone.
C15_Witness ==
    /\ tasks = HistoryCap + 2
    /\ Len(saved_history) = HistoryCap
    /\ saved_history[HistoryCap].strm_path = NumberedPath(3)
    /\ saved_history[1].strm_path = NumberedPath(HistoryCap + 2)

\* C17 as stated: every path a task removed lies strictly inside the subtree
\* of the local root resolved for the task; the local root itself, its
\* ancestors and its siblings are never removed.
C17_InsideLocalRoot ==
    tasks > 0 =>
        \A q \in pre.fs \ local_fs :
            /\ log.local_base # <<>>
            /\ q # log.local_base
            /\ startswith(q, log.local_base \o <<"/">>)

\* C18 as stated: no file or directory whose path contains a keepDirs or
\* excludeKeywords token is deleted by a task, be it a direct candidate, a
\* file under a directory removed by directory cleanup, a metadata sibling or
\* a file removed with a reclaimed directory.
C18_ExcludedNeverDeleted ==
    tasks > 0 =>
        \A q \in pre.fs \ local_fs :
            ~_is_excluded(q, _keep_dirs, _exclude_keywords)

\* C19 as stated: a task with a mapping that matched zero candidates mutates
\* nothing on the filesystem and ends with a not-found history entry.
C19_ZeroMatchTouchesNothing ==
    (tasks > 0 /\ log.local_base # <<>>
        /\ task_stats.matched = pre.stats.matched) =>
        /\ local_fs = pre.fs
        /\ log.saved
        /\ Head(saved_history).strm_path = pre.strm_path
        /\ Head(saved_history).action = "not_found"

\* C20 as stated: whenever the pointer's stem contains an S<digits>E<digits>
\* tag, wherever it occurs in the stem, deep search cleans only media files of
\* the resolved directory whose name contains that tag and never cleans the
\* resolved directory as a whole.
C20_TaggedStemCleansFilesOnly ==
    (tasks > 0 /\ log.deep
        /\ SearchSeasonEpisode(stem(pre.strm_path), 1) # <<>>) =>
        /\ log.rmtree = {}
        /\ \A f \in log.cleaned :
              /\ f \in LocalFiles
              /\ LowerToken(suffix(f)) \in MEDIA_EXTENSIONS
              /\ \E i \in 1..Len(name(f)) :
                    SeasonEpisode(name(f)[i]) =
                        SearchSeasonEpisode(stem(pre.strm_path), 1)

\* the segments of the last task's pointer path below its source root
PreParts ==
    LET m == FindMapping(_path_mappings, pre.strm_path)
    IN  split(strip(SubSeq(pre.strm_path, Len(_path_mappings[m].s) + 1,
                           Len(pre.strm_path))))

\* walking parts[:-1] from current, some segment without an exact child has no
\* or more than one subdirectory that the fuzzy rule accepts
RECURSIVE NoUniqueRedirect(_, _, _, _)
NoUniqueRedirect(fs, current, parts, i) ==
    IF i >= Len(parts) THEN FALSE
    ELSE IF exists(fs, JoinPath(current, parts[i]))
    THEN NoUniqueRedirect(fs, JoinPath(current, parts[i]), parts, i + 1)
    ELSE LET found == Redirects(fs, current, parts[i])
         IN  IF Cardinality(found) # 1 THEN TRUE
             ELSE NoUniqueRedirect(fs, CHOOSE d \in found : TRUE, parts, i + 1)

\* C21 as stated: when deep search meets a segment without an exact child
\* directory that the fuzzy rule matches with no or with more than one
\* subdirectory, the walk fails: nothing is matched, cleaned or deleted.
C21_AmbiguousWalkFails ==
    (tasks > 0 /\ log.deep
        /\ NoUniqueRedirect(pre.fs, log.local_base, PreParts, 1)) =>
        /\ NothingMatched
        /\ Untouched

\* the destinations the exact matcher returned to the last task
ExactFiles == {log.exact[i] : i \in 1..Len(log.exact)}

PreDescent == Descend(pre.fs, log.local_base, PreParts, 1)

\* C23: directory cleanup reached through deep search never targets the local
\* root: the local root is never a cleanup candidate nor removed by directory
\* cleanup, and when the descent of an untagged pointer ends at the local root
\* nothing is matched and nothing on disk or in the index changes.
C23_LocalRootNotCandidate ==
    (tasks > 0 /\ log.deep) =>
        /\ log.local_base \notin log.cleaned
        /\ log.local_base \notin log.rmtree
        /\ (DeepSearchTag(stem(pre.strm_path)) = <<>>
               /\ PreDescent = log.local_base) =>
              /\ NothingMatched
              /\ Untouched
              /\ Head(saved_history).action = "not_found"

\* C23 witness: in active mode an untagged pointer lying directly under the
\* source root went to deep search, the descent ended at the local root, and
\* the local root with its content is still on disk.
C23_Witness ==
    /\ tasks > 0
    /\ ~_notify_only /\ _remove_record /\ _delete_torrent
    /\ log.deep
    /\ pre.strm_path = P_flat
    /\ PreDescent = LocalRoot
    /\ local_fs = pre.fs
    /\ F_movie \in local_fs

\* the hashes the last task sent
NewEvents ==
    {sent_events[i] : i \in (Len(pre.events) + 1)..Len(sent_events)}

\* C24: in active mode a sub-operation of per-file cleanup that raises (record
\* lookup, metadata deletion, hash resolution, event emission, record
\* deletion) is caught where it happens: every candidate of the task is still
\* passed through cleanup and unlinked when it is on disk, no failure is
\* counted, and every later step that does not depend on the failed one is
\* still performed for it.
C24_StepFailureIsolated ==
    tasks > 0 =>
        /\ ExactFiles \subseteq log.cleaned
        /\ task_stats.failed = pre.stats.failed
        /\ \A f \in log.cleaned \cap LocalFiles :
              LET h == get_by_dest(pre.transfers, f)
              IN  /\ f \in pre.fs => (f \in log.unlinked /\ f \notin local_fs)
                  /\ (_clean_metadata /\ "meta" \notin log.step_failed) =>
                        MetaSiblings(pre.fs, f) \cap local_fs = {}
                  /\ (_remove_record /\ h # NoRecord
                         /\ log.step_failed \cap {"lookup", "delete"} = {}) =>
                        get_by_dest(transfer_history, f) = NoRecord
                  /\ (_delete_torrent /\ h # NoRecord
                         /\ h.download_hash # ""
                         /\ log.step_failed \cap {"lookup", "event"} = {}) =>
                        h.download_hash \in NewEvents
                  /\ (_delete_torrent /\ h # NoRecord
                         /\ h.download_hash = "" /\ h.src # <<>>
                         /\ log.step_failed
                               \cap {"lookup", "hash", "event"} = {}) =>
                        get_hash_by_fullpath(h.src) \in NewEvents

\* C24 witness: with every toggle on, a sub-operation raised during a task
\* with two candidates; both files were unlinked all the same.
C24_Witness ==
    /\ tasks > 0
    /\ _clean_metadata /\ _delete_torrent /\ _remove_record
    /\ log.step_failed # {}
    /\ Len(log.exact) = 2
    /\ ExactFiles \subseteq pre.fs
    /\ ExactFiles \subseteq log.unlinked
    /\ ExactFiles \cap local_fs = {}

\* C25 as stated: in active mode with torrent cleanup enabled, directory
\* cleanup emits, for every file under the directory whose transfer record
\* stores a download hash, an event carrying that hash, whether or not record
\* removal is enabled too.
C25_DirectoryCleanupEmitsStoredHashes ==
    (tasks > 0 /\ ~_notify_only /\ _delete_torrent) =>
        \A d \in log.cleaned \cap LocalDirs :
            \A f \in Subtree(pre.fs, d) \cap LocalFiles :
                LET h == get_by_dest(pre.transfers, f)
                IN  (h # NoRecord /\ h.download_hash # "") =>
                        h.download_hash \in NewEvents

\* the hash per-file cleanup is to send for f, read off the index as the task
\* found it: the stored hash, else the one the download history has for the
\* record's source path, else the one it has for the destination path
HashFor(f) ==
    LET h == get_by_dest(pre.transfers, f)
    IN  IF h # NoRecord /\ h.download_hash # "" THEN h.download_hash
        ELSE IF h # NoRecord /\ h.src # <<>>
                  /\ get_hash_by_fullpath(h.src) # ""
        THEN get_hash_by_fullpath(h.src)
        ELSE get_hash_by_fullpath(f)

\* C26: in active mode with torrent cleanup enabled, a task that cleans file
\* by file sends one event for each candidate that has a hash and none for
\* the others, each carrying the stored hash, else the hash of the record's
\* source path, else the hash of the destination path; with torrent cleanup
\* disabled no event is sent. (Stated of the tasks in which neither the record
\* lookup, the hash lookup nor the event emission raised.)
C26_OneEventPerCandidate ==
    tasks > 0 =>
        /\ ~_delete_torrent => sent_events = pre.events
        /\ (~_notify_only /\ _delete_torrent
               /\ log.cleaned \cap LocalDirs = {}
               /\ log.step_failed \cap {"lookup", "hash", "event"} = {}) =>
              LET files == log.cleaned \cap LocalFiles
              IN  /\ Len(sent_events) - Len(pre.events) =
                        Cardinality({f \in files : HashFor(f) # ""})
                  /\ NewEvents = {HashFor(f) : f \in files} \ {""}
                  /\ SubSeq(sent_events, 1, Len(pre.events)) = pre.events

\* C26 witness: over two tasks three candidates were cleaned file by file and
\* three events were sent: one with a stored hash, one with the hash of the
\* record's source path, one with the hash of the destination path.
C26_Witness ==
    /\ tasks = 2
    /\ _delete_torrent
    /\ log.step_failed \cap {"lookup", "hash", "event"} = {}
    /\ pre.log.step_failed \cap {"lookup", "hash", "event"} = {}
    /\ Len(sent_events) = 3
    /\ {sent_events[i] : i \in 1..3} = {"h1", "h2", "h4"}

\* C27 as stated: the statistics accumulated before an exception caught by the
\* worker loop are discarded, so no later batch includes them: a worker whose
\* has_data is clear (nothing to flush) holds an empty accumulator.
C27_DiscardedOnException ==
    \A t \in Threads :
        (Alive(t) /\ ~workers[t].has_data) => workers[t].stats = EmptyStats

\* the tasks counted as scanned by a sequence of sent batches
RECURSIVE SumScanned(_)
SumScanned(batches) ==
    IF batches = <<>> THEN 0
    ELSE Head(batches).scanned + SumScanned(Tail(batches))

\* the tasks counted in the accumulators of the threads still running
RECURSIVE SumPending(_)
SumPending(t) ==
    IF t = 0 THEN 0
    ELSE (IF Alive(t) THEN workers[t].stats.scanned ELSE 0) + SumPending(t - 1)

\* C28 as stated (its safety half): with send_notify on no scanned task is
\* lost without a notification: every task handed to _handle_single_file is
\* counted in a batch already sent or in the accumulator of a running worker,
\* which will send it; a worker that leaves its loop on the sentinel or the
\* stop flag has sent what it had accumulated. (Stated of the runs in which no
\* worker ended by an exception.)
C28_NoScannedTaskLost ==
    (_send_notify /\ \A t \in Threads : workers[t].pc # "crashed") =>
        Len(handled) = SumScanned(notifications) + SumPending(Len(workers))

\* the walk has no reason to go on to p on the tree it finds: p is missing, or
\* holds a subdirectory or a media file (the system root holds the source
\* root)
WalkStopsAt(tree, p) ==
    \/ p \in SystemDirs
    \/ p \notin tree
    \/ HoldsContent(tree, p)

\* C29: in active mode the reclamation walk terminates and removes exactly
\* the maximal chain of consecutive qualifying directories: every directory it
\* removed held no subdirectory and no media file when checked, the next one
\* removed is its parent, checked on the tree as the removal left it, and the
\* walk ends only at a parent that is missing or holds content; a directory a
\* candidate was cleaned from is not left behind empty, and no directory is
\* removed beyond the chain.
C29_ReclaimsMaximalChain ==
    (tasks > 0 /\ ~_notify_only) =>
        /\ \A i \in 1..Len(log.reclaimed) :
              LET r == log.reclaimed[i]
                  after == r.seen \ Subtree(r.seen, r.dir)
              IN  /\ r.dir \in r.seen
                  /\ ~HoldsContent(r.seen, r.dir)
                  /\ after \cap Subtree(pre.fs, r.dir) = {}
                  /\ \/ /\ i < Len(log.reclaimed)
                        /\ log.reclaimed[i + 1].dir = parent(r.dir)
                        /\ log.reclaimed[i + 1].seen = after
                     \/ /\ WalkStopsAt(after, parent(r.dir))
                        /\ i < Len(log.reclaimed) =>
                              log.reclaimed[i + 1].dir # parent(r.dir)
        /\ \A f \in ExactFiles :
              parent(f) \in local_fs =>
                  \/ HoldsContent(local_fs, parent(f))
                  \/ parent(f) \in log.fs_failed
        /\ \A d \in (pre.fs \ local_fs) \cap LocalDirs :
              \/ \E r \in log.rmtree : d \in Subtree(pre.fs, r)
              \/ \E i \in 1..Len(log.reclaimed) : log.reclaimed[i].dir = d

\* C29 witness: the walk started at the season directory removed it, the show
\* directory and the local root, three levels, and ended at the system root;
\* nothing of the library is left.
C29_Witness ==
    /\ tasks > 0 /\ ~_notify_only
    /\ Len(log.reclaimed) = 3
    /\ log.reclaimed[1].dir = D_season
    /\ log.reclaimed[2].dir = D_show
    /\ log.reclaimed[3].dir = LocalRoot
    /\ local_fs = {}

\* the number of paths recorded since processed_cache was last cleared
SinceClear == tasks % (CacheLimit + 1)

\* C30: between iterations of the worker loop processed_cache holds at most
\* 1000 entries; it holds exactly the paths recorded since it was last
\* cleared, each with the time it was recorded at, however old, and recording
\* the path that makes it exceed 1000 entries leaves it empty.
C30_CacheClearedWhole ==
    LET cache == workers[1].processed_cache
    IN  /\ Cardinality(DOMAIN cache) <= CacheLimit
        /\ Cardinality(DOMAIN cache) = SinceClear
        /\ \A k \in (tasks - SinceClear + 1)..tasks :
              /\ NumberedPath(k) \in DOMAIN cache
              /\ cache[NumberedPath(k)] = k - 1

\* C30 witness: the 1001st distinct path was recorded and the cache is empty;
\* the paths recorded long before were still held until then.
C30_Witness ==
    /\ tasks = CacheLimit + 1
    /\ DOMAIN workers[1].processed_cache = {}
    /\ now - DedupWindow > 0

====
